---- MODULE Spec2Model ----
(***************************************************************************)
(* Thermal model of a water distribution network (wntr/sim/thermal.py):    *)
(* the ThermalSimulator time-marching engine, the meshnet pipe-subdivision *)
(* utility, and the node connection data of the network model that the     *)
(* engine consumes (pinned down by wntr/tests/test_thermal_model.py).      *)
(*                                                                         *)
(* Real numbers are exact rationals <<numerator, denominator>>; the float  *)
(* value inf of a node without pipes is written <<1, 0>>.                  *)
(***************************************************************************)
EXTENDS Integers, Sequences, FiniteSets, TLC

VARIABLES
    net,        \* SpecNet: the network model being edited (links registry + node connection data)
    mesh,       \* SpecMesh: the meshnet call (input network, options, loop position, meshed network)
    wn,         \* Spec: the WaterNetworkModel given to the ThermalSimulator
    results,    \* Spec: the hydraulic SimulationResults (link and node tables)
    weather,    \* Spec: the Weather object, or None
    sim,        \* Spec: the fields of the ThermalSimulator object
    run         \* Spec: the position of the caller and of run_sim, its locals, and what has happened

vars == <<net, mesh, wn, results, weather, sim, run>>
simvars == <<wn, results, weather, sim, run>>

-----------------------------------------------------------------------------
(* Exact rational arithmetic standing for the float arithmetic of the code *)

Abs(x) == IF x < 0 THEN -x ELSE x

RECURSIVE GCD(_, _)
GCD(a, b) == IF b = 0 THEN a ELSE GCD(b, a % b)

Rat(n, d) == LET g == GCD(Abs(n), Abs(d))
                 s == IF d < 0 THEN -1 ELSE 1
             IN  <<(s * n) \div g, (s * d) \div g>>

RInt(n) == <<n, 1>>
Zero == RInt(0)
One == RInt(1)
\* (common factors are taken out before multiplying, to keep the numbers small)
RAdd(a, b) == LET g == GCD(a[2], b[2])
              IN  Rat(a[1] * (b[2] \div g) + b[1] * (a[2] \div g), (a[2] \div g) * b[2])
RNeg(a) == <<-a[1], a[2]>>
RSub(a, b) == RAdd(a, RNeg(b))
RMul(a, b) == LET g == GCD(Abs(a[1]), b[2])
                  h == GCD(Abs(b[1]), a[2])
              IN  IF a[1] = 0 \/ b[1] = 0 THEN <<0, 1>>
                  ELSE <<(a[1] \div g) * (b[1] \div h), (a[2] \div h) * (b[2] \div g)>>
RDiv(a, b) == RMul(a, IF b[1] < 0 THEN <<-b[2], -b[1]>> ELSE <<b[2], b[1]>>)
RGreater(a, b) == a[1] * b[2] > b[1] * a[2]
\* floor of a non-negative rational (pandas floordiv followed by astype(int))
RFloor(a) == a[1] \div a[2]

RECURSIVE RSumSeq(_)
RSumSeq(s) == IF s = <<>> THEN Zero ELSE RAdd(Head(s), RSumSeq(Tail(s)))

\* sum of f[x] over the finite set S
RECURSIVE RSumSet(_, _)
RSumSet(S, f) == IF S = {} THEN Zero
                 ELSE LET x == CHOOSE y \in S : TRUE
                      IN  RAdd(f[x], RSumSet(S \ {x}, f))

\* the float inf (numpy.inf): not a fraction, written 1/0
Inf == <<1, 0>>
\* the value None, told apart from every fraction
None == <<0, 0>>

\* 1/x in float arithmetic, for x >= 0 or x = inf
Recip(x) == IF x = Inf THEN Zero ELSE IF x = Zero THEN Inf ELSE RDiv(One, x)

\* the float nan, and the mark of a division that raised ZeroDivisionError
\* instead of returning a value
NaN == <<0, 0>>
Raised == <<-1, 0>>

\* the outcomes of a / b for a >= 0: numpy floats return nan for 0/0 and inf for
\* a/0 (with a RuntimeWarning), python floats raise ZeroDivisionError; which of
\* the two a collaborator hands over is not fixed by the code
FloatDivide(a, b) ==
    IF b # Zero THEN {RDiv(a, b)}
    ELSE {IF a = Zero THEN NaN ELSE Inf, Raised}

\* a + b when b may be nan, inf or a raised exception
FloatAdd(a, b) ==
    IF b = Raised THEN Raised
    ELSE IF b = NaN THEN NaN
    ELSE IF b = Inf THEN Inf
    ELSE RAdd(a, b)

\* positions of a sequence whose element satisfies Test
SelectIdx(s, Test(_)) == {i \in 1..Len(s) : Test(s[i])}
\* s without its i-th element
RemoveAt(s, i) == SubSeq(s, 1, i - 1) \o SubSeq(s, i + 1, Len(s))
\* first position of x in s (list.index)
IndexOf(s, x) == CHOOSE i \in 1..Len(s) : s[i] = x /\ \A j \in 1..(i - 1) : s[j] # x

-----------------------------------------------------------------------------
(* Network model: links registry and per-node connection data              *)

NoLink == [link_type |-> "none"]

\* per-node connection data (node._connections): same-order lists
EmptyConnections == [connected_links |-> <<>>, connection_side |-> <<>>,
                     neighbour_nodes |-> <<>>, lengths |-> <<>>]

\* the sign convention exchanged: +1 at the origin, -1 at the terminus
ConnectionSide_OriginPlus(link, node) == IF node = link.start_node THEN 1 ELSE -1

\* side sign a link end records at a node: the node at the link's end (terminus)
\* records +1, the node at its start (origin) records -1
ConnectionSide(link, node) == IF node = link.end_node THEN 1 ELSE -1

\* length list entry: half the pipe length, 0.0 for pumps and valves
HalfLength(link) == IF link.link_type = "Pipe" THEN RDiv(link.length, RInt(2)) ELSE Zero

\* the entry a link contributes to the connection data of one of its end nodes
AppendConnection(c, name, link, node) ==
    [connected_links |-> Append(c.connected_links, name),
     connection_side |-> Append(c.connection_side, ConnectionSide(link, node)),
     neighbour_nodes |-> Append(c.neighbour_nodes,
                                IF node = link.end_node THEN link.start_node ELSE link.end_node),
     lengths         |-> Append(c.lengths, HalfLength(link))]

\* the connection data of a node without its entry for link `name`
DropConnection(c, name) ==
    LET i == IndexOf(c.connected_links, name)
    IN  [connected_links |-> RemoveAt(c.connected_links, i),
         connection_side |-> RemoveAt(c.connection_side, i),
         neighbour_nodes |-> RemoveAt(c.neighbour_nodes, i),
         lengths         |-> RemoveAt(c.lengths, i)]

\* wn.add_pipe / add_pump / add_valve: register the link, then record it at its
\* start node and at its end node
add_link(n, name, link) ==
    LET atStart == [n.nodes EXCEPT ![link.start_node] =
                        AppendConnection(@, name, link, link.start_node)]
        atBoth  == [atStart EXCEPT ![link.end_node] =
                        AppendConnection(@, name, link, link.end_node)]
    IN  [links |-> [n.links EXCEPT ![name] = link], nodes |-> atBoth]

\* wn.remove_link: unregister the link and drop its entry at both end nodes
remove_link(n, name) ==
    LET link    == n.links[name]
        atStart == [n.nodes EXCEPT ![link.start_node] = DropConnection(@, name)]
        atBoth  == [atStart EXCEPT ![link.end_node] = DropConnection(@, name)]
    IN  [links |-> [n.links EXCEPT ![name] = NoLink], nodes |-> atBoth]

\* wntr.morph.link.reverse_link: the link is removed and added again with its
\* start and end nodes exchanged
reverse_link(n, name) ==
    LET link == n.links[name]
    IN  add_link(remove_link(n, name), name,
                 [link EXCEPT !.start_node = link.end_node, !.end_node = link.start_node])

\* a change of end node that leaves the old end node's entry in place
set_end_node_KeepOld(n, name, node) ==
    LET link     == n.links[name]
        newlink  == [link EXCEPT !.end_node = node]
        i        == IndexOf(n.nodes[link.start_node].connected_links, name)
        retarget == [n.nodes EXCEPT ![link.start_node].neighbour_nodes[i] = node]
        added    == [retarget EXCEPT ![node] = AppendConnection(@, name, newlink, node)]
    IN  [links |-> [n.links EXCEPT ![name] = newlink], nodes |-> added]

\* link.end_node = node: the old end node loses the entry, the new end node
\* gains one, the start node's neighbour becomes the new end node
set_end_node(n, name, node) ==
    LET link     == n.links[name]
        newlink  == [link EXCEPT !.end_node = node]
        i        == IndexOf(n.nodes[link.start_node].connected_links, name)
        dropped  == [n.nodes EXCEPT ![link.end_node] = DropConnection(@, name)]
        retarget == [dropped EXCEPT ![link.start_node].neighbour_nodes[i] = node]
        added    == [retarget EXCEPT ![node] = AppendConnection(@, name, newlink, node)]
    IN  [links |-> [n.links EXCEPT ![name] = newlink], nodes |-> added]

\* node.water_volume: cross-section times half length, summed over the node's
\* connection entries
water_volume(n, node) ==
    LET c == n.nodes[node]
    IN  RSumSeq([i \in 1..Len(c.connected_links) |->
                    RMul(n.links[c.connected_links[i]].area, c.lengths[i])])

\* reciprocal of the half-pipe thermal resistance of a pipe:
\* wall / (pi * length), wall = the wall and insulation logarithm terms over pi
half_pipe_conductance(link) ==
    IF link.link_type = "Pipe" THEN RDiv(link.length, link.wall) ELSE Zero

\* reciprocal of node.total_thermal_resistance: the half-pipe resistances of the
\* node's connection entries combined in parallel
total_thermal_resistance_inv(n, node) ==
    LET c == n.nodes[node]
    IN  RSumSeq([i \in 1..Len(c.connected_links) |->
                    half_pipe_conductance(n.links[c.connected_links[i]])])

\* node.total_thermal_resistance (numpy.inf for a node without pipes)
total_thermal_resistance(n, node) == Recip(total_thermal_resistance_inv(n, node))

-----------------------------------------------------------------------------
(* SpecNet: a network edited by add-link, reverse-link, change-end-node and *)
(* remove-link operations (the operations of test_thermal_model.py)         *)

NetNodes == {"re", "j1", "ta"}
NetLinkNames == {"pu", "p1", "p2"}

\* the link a name stands for: a pump and two pipes of different length,
\* cross-section area and wall term
NetLink(name, s, e) ==
    IF name = "pu"
    THEN [link_type |-> "Pump", start_node |-> s, end_node |-> e,
          length |-> Zero, area |-> Zero, wall |-> One]
    ELSE IF name = "p1"
    THEN [link_type |-> "Pipe", start_node |-> s, end_node |-> e,
          length |-> RInt(2), area |-> RInt(1), wall |-> RInt(1)]
    ELSE [link_type |-> "Pipe", start_node |-> s, end_node |-> e,
          length |-> RInt(4), area |-> RInt(3), wall |-> RInt(2)]

\* the simulator variables where no simulator is involved
SimIdle == /\ wn = <<>>
           /\ results = <<>>
           /\ weather = None
           /\ sim = <<>>
           /\ run = [pc |-> "idle"]

EmptyNet == [links |-> [l \in NetLinkNames |-> NoLink],
             nodes |-> [n \in NetNodes |-> EmptyConnections],
             op    |-> "new"]

MeshIdle == [pc |-> "idle"]

InitNet == /\ net = EmptyNet
           /\ mesh = MeshIdle
           /\ SimIdle

Edited(n, opname) == [links |-> n.links, nodes |-> n.nodes, op |-> opname]

AddLink(name, s, e) ==
    /\ net.links[name] = NoLink
    /\ s # e
    /\ net' = Edited(add_link(net, name, NetLink(name, s, e)), "add")
    /\ UNCHANGED <<mesh, simvars>>

ReverseLink(name) ==
    /\ net.links[name] # NoLink
    /\ net' = Edited(reverse_link(net, name), "reverse")
    /\ UNCHANGED <<mesh, simvars>>

SetEndNode(name, node) ==
    /\ net.links[name] # NoLink
    /\ node # net.links[name].start_node
    /\ node # net.links[name].end_node
    /\ net' = Edited(set_end_node(net, name, node), "end_node")
    /\ UNCHANGED <<mesh, simvars>>

RemoveLink(name) ==
    /\ net.links[name] # NoLink
    /\ net' = Edited(remove_link(net, name), "remove")
    /\ UNCHANGED <<mesh, simvars>>

NextNet == \/ \E name \in NetLinkNames, s \in NetNodes, e \in NetNodes : AddLink(name, s, e)
           \/ \E name \in NetLinkNames : ReverseLink(name)
           \/ \E name \in NetLinkNames, node \in NetNodes : SetEndNode(name, node)
           \/ \E name \in NetLinkNames : RemoveLink(name)

SpecNet == InitNet /\ [][NextNet]_vars

\* the pipes of the registry that start or end at the node
IncidentPipes(n, node) ==
    {l \in DOMAIN n.links : /\ n.links[l].link_type = "Pipe"
                            /\ node \in {n.links[l].start_node, n.links[l].end_node}}

\* every connection entry of every node names a registered link of which the
\* node is an end node
ConnectionsWellFormed ==
    \A node \in NetNodes :
        LET c == net.nodes[node]
        IN  \A i \in 1..Len(c.connected_links) :
                /\ net.links[c.connected_links[i]] # NoLink
                /\ node \in {net.links[c.connected_links[i]].start_node,
                             net.links[c.connected_links[i]].end_node}

\* C5 (as stated): the side sign a node records for a connected link is +1 if
\* the node is the link's origin (start node) and -1 if it is its terminus
C5_SideOriginPlus ==
    \A node \in NetNodes :
        LET c == net.nodes[node]
        IN  \A i \in 1..Len(c.connected_links) :
                c.connection_side[i] =
                    (IF node = net.links[c.connected_links[i]].start_node THEN 1 ELSE -1)

\* C5 (amended): in every reachable network, the side sign a node records for a
\* connected link, in the order of its connected links, is -1 if the node is the
\* link's origin (start node) and +1 if it is the link's terminus (end node)
C5_SideTerminusPlus ==
    /\ ConnectionsWellFormed
    /\ \A node \in NetNodes :
        LET c == net.nodes[node]
        IN  /\ Len(c.connection_side) = Len(c.connected_links)
            /\ \A i \in 1..Len(c.connected_links) :
                c.connection_side[i] =
                    (IF node = net.links[c.connected_links[i]].start_node THEN -1 ELSE 1)

\* the network of test_node_connection_data: pu re->j1 then p1 j1->ta; j1 is the
\* terminus of pu and the origin of p1
C5_Witness ==
    /\ net.nodes["j1"].connected_links = <<"pu", "p1">>
    /\ net.links["pu"].start_node = "re"
    /\ net.links["p1"].end_node = "ta"
    /\ net.nodes["j1"].connection_side = <<1, -1>>
    /\ net.nodes["re"].connection_side = <<-1>>

\* C9: after any sequence of add-link, reverse-link, change-end-node and
\* remove-link operations, each node's water volume and total thermal resistance
\* reciprocal are the sums of the half-pipe contributions of the pipes currently
\* incident to the node, whatever the links' directions; a node without a pipe
\* has volume 0 and infinite resistance
C9_NodeSumsFollowIncidentPipes ==
    \A node \in NetNodes :
        LET pipes == IncidentPipes(net, node)
        IN  /\ water_volume(net, node) =
                 RSumSet(pipes, [l \in pipes |->
                     RDiv(RMul(net.links[l].area, net.links[l].length), RInt(2))])
            /\ total_thermal_resistance_inv(net, node) =
                 RSumSet(pipes, [l \in pipes |-> RDiv(net.links[l].length, net.links[l].wall)])
            /\ (pipes = {}) <=> (total_thermal_resistance(net, node) = Inf)
            /\ (pipes = {}) => (water_volume(net, node) = Zero)

\* a link was just removed: j1 keeps pipe p2 only (reversed or re-ended so that it
\* is listed alone) and ta is left without any pipe
C9_Witness ==
    /\ net.op = "remove"
    /\ net.links["p1"] = NoLink
    /\ IncidentPipes(net, "j1") = {"p2"}
    /\ net.links["p2"].start_node = "j1"
    /\ water_volume(net, "j1") = RInt(6)
    /\ IncidentPipes(net, "ta") = {}
    /\ total_thermal_resistance(net, "ta") = Inf

-----------------------------------------------------------------------------
(* SpecMesh: meshnet(wn, return_copy), the pipe subdivision utility         *)

MaxPipeLength == 3

\* no network returned yet
NoNetwork == [nodes |-> {}, pipe_name_list |-> <<>>, links |-> <<>>]

\* the network given to meshnet: pipes pa: n0 -> n1 and pb: n1 -> n2 and a pump
MeshInput(la, lb) ==
    [nodes |-> {"n0", "n1", "n2", "n3"},
     pipe_name_list |-> <<"pa", "pb">>,
     links |-> [l \in {"pa", "pb", "pm"} |->
                   IF l = "pa" THEN [link_type |-> "Pipe", start_node |-> "n0",
                                     end_node |-> "n1", length |-> RInt(la)]
                   ELSE IF l = "pb" THEN [link_type |-> "Pipe", start_node |-> "n1",
                                          end_node |-> "n2", length |-> RInt(lb)]
                   ELSE [link_type |-> "Pump", start_node |-> "n2",
                         end_node |-> "n3", length |-> Zero]]]

\* thresholds: None, or a positive multiple of one half
MeshThresholds == {None} \cup {Rat(m, 2) : m \in 1..(2 * MaxPipeLength)}

\* wntr.morph.split_pipe(wn, pipe, new_pipe, new_junction, split_at_point):
\* the original pipe keeps its start node and the fraction split_at_point of
\* its length up to the new junction; the new pipe runs from the new junction
\* to the original end node with the remaining length
split_pipe(w, pipe_name, new_pipe_name, new_junction_name, split_at_point) ==
    LET orig == w.links[pipe_name]
    IN  [nodes |-> w.nodes \cup {new_junction_name},
         pipe_name_list |-> Append(w.pipe_name_list, new_pipe_name),
         links |-> (new_pipe_name :>
                        [link_type |-> "Pipe", start_node |-> new_junction_name,
                         end_node |-> orig.end_node,
                         length |-> RMul(orig.length, RSub(One, split_at_point))])
                   @@ [w.links EXCEPT ![pipe_name] =
                        [link_type |-> "Pipe", start_node |-> orig.start_node,
                         end_node |-> new_junction_name,
                         length |-> RMul(orig.length, split_at_point)]]]

\* wn.query_link_attribute('length', np.greater, max_pipe_length, link_type=Pipe)
IsLongPipe(link, max_pipe_length) ==
    link.link_type = "Pipe" /\ RGreater(link.length, max_pipe_length)

\* long_pipes.index: the names of the long pipes in registry order
long_pipes(w, max_pipe_length) ==
    SelectSeq(w.pipe_name_list, LAMBDA l : IsLongPipe(w.links[l], max_pipe_length))

\* long_pipes.floordiv(max_pipe_length).astype(int)
num_splits(w, max_pipe_length, pipe_name) ==
    RFloor(RDiv(w.links[pipe_name].length, max_pipe_length))

\* a ratio that does not follow the shrinking remainder
SplitRatio_Fixed(ns, i) == RSub(One, Rat(1, ns + 1))

\* ratio = 1 - 1 / (num_splits[pipe_name] + 1 - i)
SplitRatio(ns, i) == RSub(One, Rat(1, ns + 1 - i))

\* f'{pipe_name}_{num}' and f'of_{pipe_name}_{num}'
NewPipeName(pipe_name, num) == pipe_name \o "_" \o ToString(num)
NewJunctionName(pipe_name, num) == "of_" \o pipe_name \o "_" \o ToString(num)

InitMesh ==
    /\ net = EmptyNet
    /\ SimIdle
    /\ \E la \in 1..MaxPipeLength, lb \in 1..MaxPipeLength,
          m \in MeshThresholds, rc \in BOOLEAN :
         mesh = [pc |-> "call", wn |-> MeshInput(la, lb), max_pipe_length |-> m,
                 return_copy |-> rc, meshed_wn |-> MeshInput(la, lb),
                 todo |-> <<>>, i |-> 0, result |-> NoNetwork]

\* lines 271-293: pick the network to work on, query the long pipes and compute
\* their numbers of splits; nothing to do when the threshold is None or no pipe
\* is longer than the threshold
MeshStart ==
    /\ mesh.pc = "call"
    /\ LET lp == IF mesh.max_pipe_length = None THEN <<>>
                 ELSE long_pipes(mesh.wn, mesh.max_pipe_length)
       IN  mesh' = [mesh EXCEPT !.pc = IF lp = <<>> THEN "return" ELSE "split",
                                !.todo = lp, !.i = 0]
    /\ UNCHANGED <<net, simvars>>

\* lines 295-307: one iteration of the inner loop, one split_pipe call on the
\* current long pipe (an exhausted inner loop moves on to the next long pipe)
MeshSplit ==
    /\ mesh.pc = "split"
    /\ LET pipe_name == Head(mesh.todo)
           ns        == num_splits(mesh.wn, mesh.max_pipe_length, pipe_name)
           num       == ns - mesh.i
           split     == split_pipe(mesh.meshed_wn, pipe_name, NewPipeName(pipe_name, num),
                                   NewJunctionName(pipe_name, num), SplitRatio(ns, mesh.i))
           last      == mesh.i + 1 >= ns
           rest      == IF last THEN Tail(mesh.todo) ELSE mesh.todo
       IN  mesh' = [mesh EXCEPT !.meshed_wn = split,
                                !.todo = rest,
                                !.i = IF last THEN 0 ELSE mesh.i + 1,
                                !.pc = IF rest = <<>> THEN "return" ELSE "split"]
    /\ UNCHANGED <<net, simvars>>

\* line 310
MeshReturn ==
    /\ mesh.pc = "return"
    /\ mesh' = [mesh EXCEPT !.pc = "returned", !.result = mesh.meshed_wn]
    /\ UNCHANGED <<net, simvars>>

NextMesh == MeshStart \/ MeshSplit \/ MeshReturn

SpecMesh == InitMesh /\ [][NextMesh]_vars

\* the pipes of w as a set
PipeNames(w) == {l \in DOMAIN w.links : w.links[l].link_type = "Pipe"}

TotalPipeLength(w) == RSumSet(PipeNames(w), [l \in PipeNames(w) |-> w.links[l].length])

\* k = floor(Len / max) for the pipes longer than max, 0 for the others
ExtraSegments(w, m, l) ==
    IF m # None /\ RGreater(w.links[l].length, m)
    THEN RFloor(RDiv(w.links[l].length, m)) ELSE 0

\* the names of the segments that replace pipe l: the pipe itself and l_1 .. l_k
SegmentNames(l, k) == {l} \cup {NewPipeName(l, j) : j \in 1..k}

\* C8: meshnet with threshold None, or a threshold not smaller than any pipe's
\* length, returns the same nodes, pipes and lengths; otherwise every pipe of
\* length Len > max is replaced by k+1 segments of equal length Len/(k+1),
\* k = floor(Len/max), with exactly k new junctions per such pipe, the total
\* pipe length is conserved, and the pipes not longer than max are untouched
C8_MeshnetSegments ==
    mesh.pc = "returned" =>
        LET w == mesh.wn
            r == mesh.result
            m == mesh.max_pipe_length
            orig == PipeNames(w)
            K == [l \in orig |-> ExtraSegments(w, m, l)]
        IN  /\ (\A l \in orig : K[l] = 0) =>
                  /\ r.nodes = w.nodes
                  /\ r.links = w.links
            /\ PipeNames(r) = UNION {SegmentNames(l, K[l]) : l \in orig}
            /\ \A l \in orig :
                  /\ Cardinality(SegmentNames(l, K[l])) = K[l] + 1
                  /\ \A sgm \in SegmentNames(l, K[l]) :
                        r.links[sgm].length = RDiv(w.links[l].length, RInt(K[l] + 1))
                  /\ K[l] = 0 => r.links[l] = w.links[l]
                  /\ {NewJunctionName(l, j) : j \in 1..K[l]} \subseteq r.nodes \ w.nodes
            /\ Cardinality(r.nodes) = Cardinality(w.nodes) + K["pa"] + K["pb"]
            /\ TotalPipeLength(r) = TotalPipeLength(w)
            /\ \A l \in DOMAIN w.links : w.links[l].link_type # "Pipe" => r.links[l] = w.links[l]

\* pa of length 3 against the threshold 1: k = 3 extra segments, 4 segments of
\* length 3/4, while pb of length 1 is left alone
C8_Witness ==
    /\ mesh.pc = "returned"
    /\ mesh.max_pipe_length = RInt(1)
    /\ mesh.wn.links["pa"].length = RInt(3)
    /\ mesh.wn.links["pb"].length = RInt(1)
    /\ mesh.result.links["pa_3"].length = Rat(3, 4)
    /\ mesh.result.links["pa"].length = Rat(3, 4)
    /\ Cardinality(mesh.result.nodes) = 7

-----------------------------------------------------------------------------
(* Spec: ThermalSimulator(wn, hyd_sim_results, weather) and run_sim()       *)

MaxStep == 2
MaxDuration == 3

BoundaryClasses == {"pipe", "soil", "air"}

\* numpy.arange(n) as a list
Arange(n) == [i \in 1..n |-> i - 1]

\* the python slice s[lo:hi] of a list (negative bounds count from the end)
PySlice(s, lo, hi) ==
    LET n == Len(s)
        a == IF lo < 0 THEN (IF n + lo < 0 THEN 0 ELSE n + lo) ELSE IF lo > n THEN n ELSE lo
        b == IF hi < 0 THEN (IF n + hi < 0 THEN 0 ELSE n + hi) ELSE IF hi > n THEN n ELSE hi
    IN  SubSeq(s, a + 1, b)

\* TimeData(timestep, duration): stamps = arange(0, duration + timestep, timestep)
TimeData(timestep, duration) ==
    LET num == (duration + timestep + timestep - 1) \div timestep
    IN  [step |-> timestep, duration |-> duration,
         stamps |-> [i \in 0..(num - 1) |-> i * timestep],
         stamps_num |-> num,
         stamps_idx |-> Arange(num)]

\* ObjData(names, ids)
ObjData(names, ids) ==
    [names |-> names, ids |-> ids, num |-> Len(names),
     pipe_bc |-> None, soil_bc |-> None, air_bc |-> None]

(* the links of the networks simulated: pipe p1 from the reservoir to        *)
(* junction j1, pipe p2 from j1 to the tank, pipe p3 laid next to p1 between *)
(* the same two nodes, and a valve from j1 to junction j2                    *)
SimLink(name) ==
    IF name = "p1"
    THEN [link_type |-> "Pipe", start_node |-> "re", end_node |-> "j1",
          length |-> RInt(2), area |-> RInt(1), wall |-> RInt(2)]
    ELSE IF name = "p2"
    THEN [link_type |-> "Pipe", start_node |-> "j1", end_node |-> "ta",
          length |-> RInt(4), area |-> RInt(1), wall |-> RInt(4)]
    ELSE IF name = "p3"
    THEN [link_type |-> "Pipe", start_node |-> "re", end_node |-> "j1",
          length |-> RInt(2), area |-> RInt(1), wall |-> RInt(2)]
    ELSE [link_type |-> "Valve", start_node |-> "j1", end_node |-> "j2",
          length |-> Zero, area |-> Zero, wall |-> One]

RECURSIVE BuildNet(_, _)
BuildNet(n, link_names) ==
    IF link_names = <<>> THEN n
    ELSE BuildNet(add_link(n, Head(link_names), SimLink(Head(link_names))), Tail(link_names))

SimNetwork(junctions, tanks, reservoirs, pipes, valves) ==
    LET names == junctions \o tanks \o reservoirs
        nodeset == {names[i] : i \in 1..Len(names)}
        links == pipes \o valves
    IN  [junction_name_list |-> junctions, tank_name_list |-> tanks,
         reservoir_name_list |-> reservoirs,
         pipe_name_list |-> pipes, head_pump_name_list |-> <<>>,
         power_pump_name_list |-> <<>>, valve_name_list |-> valves,
         net |-> BuildNet([links |-> [l \in {links[i] : i \in 1..Len(links)} |-> NoLink],
                           nodes |-> [n \in nodeset |-> EmptyConnections]], links)]

\* a reservoir feeding one junction; the same with a tank behind the junction;
\* the latter with a second junction behind a valve; a reservoir feeding one
\* junction through two parallel pipes; and a junction and a tank without any
\* reservoir
SimNetworks == {SimNetwork(<<"j1">>, <<>>, <<"re">>, <<"p1">>, <<>>),
                SimNetwork(<<"j1">>, <<"ta">>, <<"re">>, <<"p1", "p2">>, <<>>),
                SimNetwork(<<"j1", "j2">>, <<"ta">>, <<"re">>, <<"p1", "p2">>, <<"va">>),
                SimNetwork(<<"j1">>, <<>>, <<"re">>, <<"p1", "p3">>, <<>>),
                SimNetwork(<<"j1">>, <<"ta">>, <<>>, <<"p2">>, <<>>)}

num_junctions(w) == Len(w.junction_name_list)
num_tanks(w) == Len(w.tank_name_list)
num_reservoirs(w) == Len(w.reservoir_name_list)
num_nodes(w) == num_junctions(w) + num_tanks(w) + num_reservoirs(w)
node_names(w) == w.junction_name_list \o w.tank_name_list \o w.reservoir_name_list
link_names(w) == w.pipe_name_list \o w.head_pump_name_list \o w.power_pump_name_list
                 \o w.valve_name_list

(* node attributes and time series of the network model (inputs)            *)
Ord(name) == IF name = "j1" THEN 1 ELSE IF name = "j2" THEN 2
             ELSE IF name = "ta" THEN 3 ELSE 4
initial_temperature(name) == RInt(Ord(name))
\* reservoir.temperature_at(stamp)
reservoir_temperature_at(name, stamp) == RInt(6 + stamp)
\* node._soil_props.temperature_at(stamp)
soil_temperature_prop_at(name, stamp) == RInt(Ord(name) + stamp)
volumetric_heat_capacity_at(name, stamp) == RInt(1 + (stamp % 2))
thermal_conductivity_at(name, stamp) == RInt(1 + (stamp % 2))
absorptivity_at(name, stamp) == Rat(1, 2)
underground_depth(name) == 3
soil_volume(name) == RInt(2)
soil_air_interface_area(name) == RInt(1)
soil_area(name) == RInt(2)
\* arccosh(2 z / soil_outer_diameter) / (2 pi soil_length) for the nodes'
\* soil cylinder: a positive, increasing function of the depth z
SoilShape(name, z) == RInt(z)
tank_elevation(name) == 1
tank_init_level(name) == 1
\* tank.get_volume(level): a cylindrical tank
get_volume(name, level) == RInt(2 * level)

(* weather time series (inputs)                                             *)
TheWeather == <<1, 1>>
depth_of_soil_temperature_device == 1
weather_soil_temperature_at(stamp) == RInt(2 + stamp)
air_temperature_at(stamp) == RInt(4 + stamp)
global_solar_radiation_at(stamp) == RInt(stamp)
convective_heat_transfer_coef_at(stamp) == RInt(1 + (stamp % 2))

(* hydraulic results (inputs): every link flows in the scenario's direction *)
FlowScenarios == {"forward", "reverse", "still", "alternating"}
FlowSign(scn, t) == IF scn = "forward" THEN 1 ELSE IF scn = "reverse" THEN -1
                    ELSE IF scn = "still" THEN 0 ELSE IF t % 2 = 1 THEN 1 ELSE -1
FlowMagnitude(linkname) == IF linkname = "p1" THEN 2 ELSE 1
\* the junction at the end of the line draws what p1 brings and p2 does not carry on
NodeDemand(w, name) == IF name = w.junction_name_list[Len(w.junction_name_list)]
                       THEN 1 ELSE 0

HydraulicResults(w, scn, T) ==
    LET ln == link_names(w)
        nn == node_names(w)
    IN  [flowrate |-> [t \in 0..(T - 1) |-> [l \in 0..(Len(ln) - 1) |->
                          FlowSign(scn, t) * FlowMagnitude(ln[l + 1])]],
         demand |-> [t \in 0..(T - 1) |-> [n \in 0..(Len(nn) - 1) |->
                          FlowSign(scn, t) * NodeDemand(w, nn[n + 1])]],
         leak_demand |-> [t \in 0..(T - 1) |-> [n \in 0..(Len(nn) - 1) |-> 0]],
         head |-> [t \in 0..(T - 1) |-> [n \in 0..(Len(nn) - 1) |->
                          IF nn[n + 1] = "ta" THEN tank_elevation("ta") + 1 + t ELSE 0]],
         temperature |-> None, soil_temperature |-> None]

Sign(x) == IF x > 0 THEN 1 ELSE IF x < 0 THEN -1 ELSE 0
SeqToSet(q) == {q[i] : i \in 1..Len(q)}
\* numpy.zeros((rows, cols)) and numpy.zeros(n), numpy.identity(n)
Zeros2(rows, cols) == [r \in 0..(rows - 1) |-> [c \in 0..(cols - 1) |-> Zero]]
Zeros1(n) == [c \in 0..(n - 1) |-> Zero]
Identity(n) == [r \in 0..(n - 1) |-> [c \in 0..(n - 1) |-> IF r = c THEN One ELSE Zero]]

\* {k: v for (k, v) in zip(names, ids)}
Name2Id(names, ids) ==
    [k \in SeqToSet(names) |->
        ids[CHOOSE i \in 1..Len(names) : names[i] = k /\ \A j \in (i + 1)..Len(names) : names[j] # k]]

\* the boundary classes of the nodes: every assignment for the small network;
\* for the larger one the junctions take every class and the tank and the
\* reservoir are buried pipe-class nodes
BoundaryAssignments(base) ==
    {bc \in [SeqToSet(node_names(base)) -> BoundaryClasses] :
        Len(base.junction_name_list) > 1 => bc["ta"] = "pipe" /\ bc["re"] = "pipe"}

NoRun == [pc |-> "new", t |-> 0, todo |-> <<>>, solved |-> <<>>, acc_log |-> {},
          error |-> "none", failed_at |-> 0, returned |-> FALSE,
          pipe_bc_nodes_ids |-> <<>>, pipe_bc_nodes_IDS |-> <<>>, pipe_bc_nodes_names |-> <<>>]

Init ==
    /\ net = EmptyNet
    /\ mesh = MeshIdle
    /\ \E base \in SimNetworks, timestep \in 1..MaxStep, duration \in 0..MaxDuration,
          scn \in FlowScenarios :
        \E bc \in BoundaryAssignments(base) :
            /\ wn = [thermal_bc |-> bc, hydraulic_timestep |-> timestep,
                     duration |-> duration, specific_gravity |-> One,
                     heat_capacity |-> Rat(1, 1000)] @@ base
            /\ results = HydraulicResults(base, scn, TimeData(timestep, duration).stamps_num)
    /\ weather \in {None, TheWeather}
    /\ sim = <<>>
    /\ run = NoRun

\* lines 101-112: the ids of a node, of its connected links and of its neighbours
AssignedNode(w, nodes_name2id, links_name2id, N, name) ==
    LET c == w.net.nodes[name]
    IN  [id |-> nodes_name2id[name],
         ID |-> nodes_name2id[name] + N,
         connected_links_ids |-> [i \in 1..Len(c.connected_links) |->
                                      links_name2id[c.connected_links[i]]],
         neighbour_nodes_ids |-> [i \in 1..Len(c.neighbour_nodes) |->
                                      nodes_name2id[c.neighbour_nodes[i]]],
         connection_side |-> c.connection_side]

\* lines 143-149
ExtractHydraulicData(res, tanks_data, T) ==
    [flow_val |-> [t \in 0..(T - 1) |-> [l \in DOMAIN res.flowrate[t] |-> Abs(res.flowrate[t][l])]],
     flow_dir |-> [t \in 0..(T - 1) |-> [l \in DOMAIN res.flowrate[t] |-> Sign(res.flowrate[t][l])]],
     demands  |-> [t \in 0..(T - 1) |-> [n \in DOMAIN res.demand[t] |->
                       res.demand[t][n] + res.leak_demand[t][n]]],
     tanks_levels |-> [t \in 0..(T - 1) |-> [k \in 0..(tanks_data.num - 1) |->
                       res.head[t][tanks_data.ids[k + 1]] - tank_elevation(tanks_data.names[k + 1])]]]

\* ThermalSimulator.__init__ (lines 69-99)
NewSimulator(w, res) ==
    LET time == TimeData(w.hydraulic_timestep, w.duration)
        nodes_data == ObjData(node_names(w), Arange(num_nodes(w)))
        links_data == ObjData(link_names(w), Arange(Len(link_names(w))))
        nodes_name2id == Name2Id(nodes_data.names, nodes_data.ids)
        links_name2id == Name2Id(links_data.names, links_data.ids)
        junctions_data == ObjData(w.junction_name_list,
                                  PySlice(nodes_data.ids, 0, num_junctions(w)))
        tanks_data == ObjData(w.tank_name_list,
                              PySlice(nodes_data.ids, num_junctions(w),
                                      num_junctions(w) + num_tanks(w)))
        reservoirs_data == ObjData(w.reservoir_name_list,
                                   PySlice(nodes_data.ids, -num_reservoirs(w), Len(nodes_data.ids)))
    IN  [time |-> time,
         nodes_data |-> nodes_data, links_data |-> links_data,
         junctions_data |-> junctions_data, tanks_data |-> tanks_data,
         reservoirs_data |-> reservoirs_data,
         nodes |-> [name \in SeqToSet(nodes_data.names) |->
                       AssignedNode(w, nodes_name2id, links_name2id, nodes_data.num, name)],
         fluid_density |-> RMul(w.specific_gravity, RInt(1000)),
         fluid_heat_capacity |-> w.heat_capacity,
         hydraulic |-> ExtractHydraulicData(res, tanks_data, time.stamps_num),
         temperatures |-> Zeros2(time.stamps_num, nodes_data.num),
         soil_temperatures |-> Zeros2(time.stamps_num, nodes_data.num),
         tanks_volumes |-> Zeros2(time.stamps_num, tanks_data.num),
         coef_matrix |-> None, result_vector |-> None]

\* the caller constructs the simulator; the constructor reads the network, the
\* hydraulic results and keeps the weather reference without looking at it
Construct ==
    /\ run.pc = "new"
    /\ sim' = NewSimulator(wn, results)
    /\ run' = [run EXCEPT !.pc = "constructed"]
    /\ UNCHANGED <<net, mesh, wn, results, weather>>

\* row[ids] = vals for a row of a numpy array: positions are assigned in list
\* order, a later assignment to the same position replaces an earlier one
RECURSIVE AssignAt(_, _, _)
AssignAt(row, ids, vals) ==
    IF ids = <<>> THEN row
    ELSE AssignAt([row EXCEPT ![Head(ids)] = Head(vals)], Tail(ids),
                  IF Len(vals) = 1 /\ Len(ids) > 1 THEN vals ELSE Tail(vals))

\* numpy accepts row[ids] = vals when the lengths agree or vals has one element
CanAssignAt(ids, vals) == Len(vals) = Len(ids) \/ Len(vals) = 1

\* the members of one boundary class, in the order of the group's names
\* (the loop of lines 118-128 followed by lines 130-136)
BoundarySubset(s, w, names, class) ==
    LET members == SelectSeq(names, LAMBDA name : w.thermal_bc[name] = class)
        ids == [i \in 1..Len(members) |-> s.nodes[members[i]].id]
    IN  [names |-> members, ids |-> ids, num |-> Len(members),
         IDS |-> [i \in 1..Len(ids) |-> ids[i] + s.nodes_data.num]]

\* a classifier whose 'air' case files the node under soil as well
classify_AirAlsoSoil(s, w, node_obj) ==
    [node_obj EXCEPT
        !.pipe_bc = BoundarySubset(s, w, node_obj.names, "pipe"),
        !.soil_bc = LET both == SelectSeq(node_obj.names,
                                    LAMBDA name : w.thermal_bc[name] \in {"soil", "air"})
                        ids == [i \in 1..Len(both) |-> s.nodes[both[i]].id]
                    IN  [names |-> both, ids |-> ids, num |-> Len(both),
                         IDS |-> [i \in 1..Len(ids) |-> ids[i] + s.nodes_data.num]],
        !.air_bc  = BoundarySubset(s, w, node_obj.names, "air")]

\* _classify_nodes_per_boundary_condition (lines 114-141)
classify_nodes_per_boundary_condition(s, w, node_obj) ==
    [node_obj EXCEPT !.pipe_bc = BoundarySubset(s, w, node_obj.names, "pipe"),
                     !.soil_bc = BoundarySubset(s, w, node_obj.names, "soil"),
                     !.air_bc  = BoundarySubset(s, w, node_obj.names, "air")]

\* _initialize_matrices (lines 151-155), when its assignments are accepted
initialize_matrices(s) ==
    LET jt == s.junctions_data.names \o s.tanks_data.names
        row0a == [n \in 0..(s.nodes_data.num - 1) |->
                     IF n < s.junctions_data.num + s.tanks_data.num
                     THEN initial_temperature(jt[n + 1]) ELSE s.temperatures[0][n]]
        row0 == AssignAt(row0a, s.reservoirs_data.ids,
                         [i \in 1..Len(s.reservoirs_data.names) |->
                             reservoir_temperature_at(s.reservoirs_data.names[i], 0)])
    IN  [s EXCEPT !.temperatures[0] = row0,
                  !.tanks_volumes[0] = [k \in 0..(s.tanks_data.num - 1) |->
                      get_volume(s.tanks_data.names[k + 1], tank_init_level(s.tanks_data.names[k + 1]))],
                  !.soil_temperatures[0] = [n \in 0..(s.nodes_data.num - 1) |->
                      soil_temperature_prop_at(s.nodes_data.names[n + 1], 0)]]

\* run_sim, lines 211-217: initial rows, classification of the three groups,
\* and the ids and names of all pipe-class nodes
RunSimBegin ==
    /\ run.pc = "constructed"
    /\ IF ~CanAssignAt(sim.reservoirs_data.ids, sim.reservoirs_data.names)
       THEN /\ run' = [run EXCEPT !.pc = "aborted", !.error = "ValueError"]
            /\ UNCHANGED sim
       ELSE LET s0 == initialize_matrices(sim)
                s1 == [s0 EXCEPT
                        !.junctions_data = classify_nodes_per_boundary_condition(s0, wn, @),
                        !.tanks_data = classify_nodes_per_boundary_condition(s0, wn, @),
                        !.reservoirs_data = classify_nodes_per_boundary_condition(s0, wn, @)]
                ids == s1.junctions_data.pipe_bc.ids \o s1.tanks_data.pipe_bc.ids
                       \o s1.reservoirs_data.pipe_bc.ids
            IN  /\ sim' = s1
                /\ run' = [run EXCEPT
                      !.pc = IF s1.time.stamps_num > 1 THEN "refresh" ELSE "publish",
                      !.t = 1,
                      !.pipe_bc_nodes_ids = ids,
                      !.pipe_bc_nodes_IDS = [i \in 1..Len(ids) |-> ids[i] + s1.nodes_data.num],
                      !.pipe_bc_nodes_names = s1.junctions_data.pipe_bc.names
                            \o s1.tanks_data.pipe_bc.names \o s1.reservoirs_data.pipe_bc.names]
    /\ UNCHANGED <<net, mesh, wn, results, weather>>

\* the row builders of one step in the order of lines 229-256
Builders(names, builder, tank) ==
    [i \in 1..Len(names) |-> [builder |-> builder, name |-> names[i], tank |-> tank]]

StepBuilders(s) ==
    Builders(s.junctions_data.pipe_bc.names, "pipe_bc", FALSE)
    \o Builders(s.junctions_data.soil_bc.names, "soil_bc", FALSE)
    \o Builders(s.junctions_data.air_bc.names, "air_bc", FALSE)
    \o Builders(s.tanks_data.pipe_bc.names, "pipe_bc", TRUE)
    \o Builders(s.tanks_data.soil_bc.names, "soil_bc", TRUE)
    \o Builders(s.tanks_data.air_bc.names, "air_bc", TRUE)
    \o Builders(s.reservoirs_data.soil_bc.names, "res_soil", FALSE)
    \o Builders(s.reservoirs_data.air_bc.names, "res_air", FALSE)

\* a refresh that puts the previous stamp's reservoir temperature in the state
reservoir_refresh_PreviousStamp(s, t) ==
    [i \in 1..Len(s.reservoirs_data.names) |->
        reservoir_temperature_at(s.reservoirs_data.names[i], s.time.stamps[t - 1])]

\* line 220, right-hand side
reservoir_refresh(s, t) ==
    [i \in 1..Len(s.reservoirs_data.names) |->
        reservoir_temperature_at(s.reservoirs_data.names[i], s.time.stamps[t])]

\* a refresh that forgets the node's own offset in the soil-property series
pipe_bc_soil_refresh_FirstNode(s, names, t) ==
    [i \in 1..Len(names) |-> soil_temperature_prop_at(names[1], s.time.stamps[t])]

\* line 222, right-hand side
pipe_bc_soil_refresh(s, names, t) ==
    [i \in 1..Len(names) |-> soil_temperature_prop_at(names[i], s.time.stamps[t])]

\* lines 220-227: the time-varying boundary values of step t and a fresh
\* identity matrix and right-hand side
refresh(s, r, t) ==
    LET temps == AssignAt(s.temperatures[t], s.reservoirs_data.ids, reservoir_refresh(s, t))
        vols  == [k \in 0..(s.tanks_data.num - 1) |->
                    LET tank_id == s.tanks_data.ids[k + 1]
                    IN  get_volume(s.nodes_data.names[tank_id + 1],
                                   s.hydraulic.tanks_levels[t][tank_id - s.junctions_data.num])]
        soils == AssignAt(s.soil_temperatures[t], r.pipe_bc_nodes_ids,
                          pipe_bc_soil_refresh(s, r.pipe_bc_nodes_names, t))
        b0    == Zeros1(s.nodes_data.num * 2)
        b1    == AssignAt(b0, s.reservoirs_data.ids,
                          [i \in 1..Len(s.reservoirs_data.ids) |-> temps[s.reservoirs_data.ids[i]]])
        b2    == AssignAt(b1, r.pipe_bc_nodes_IDS,
                          [i \in 1..Len(r.pipe_bc_nodes_ids) |-> soils[r.pipe_bc_nodes_ids[i]]])
    IN  [s EXCEPT !.temperatures[t] = temps,
                  !.tanks_volumes[t] = vols,
                  !.soil_temperatures[t] = soils,
                  !.coef_matrix = Identity(s.nodes_data.num * 2),
                  !.result_vector = b2]

StepRefresh ==
    /\ run.pc = "refresh"
    /\ sim' = refresh(sim, run, run.t)
    /\ run' = [run EXCEPT !.pc = "assemble", !.todo = StepBuilders(sim)]
    /\ UNCHANGED <<net, mesh, wn, results, weather>>

RECURSIVE SumInts(_)
SumInts(q) == IF q = <<>> THEN 0 ELSE Head(q) + SumInts(Tail(q))

\* _get_upstream_downstream_ids (lines 157-164)
get_upstream_downstream_ids(s, t, node) ==
    LET n == Len(node.connected_links_ids)
        in_out == [i \in 1..n |->
                     s.hydraulic.flow_dir[t][node.connected_links_ids[i]] * node.connection_side[i]]
        up == SelectSeq([i \in 1..n |-> i], LAMBDA i : in_out[i] > 0)
        down == SelectSeq([i \in 1..n |-> i], LAMBDA i : in_out[i] <= 0)
    IN  [upstream_nodes_ids |-> [k \in 1..Len(up) |-> node.neighbour_nodes_ids[up[k]]],
         upstream_links_ids |-> [k \in 1..Len(up) |-> node.connected_links_ids[up[k]]],
         downstream_links_ids |-> [k \in 1..Len(down) |-> node.connected_links_ids[down[k]]]]

\* lines 169 and 171: R2 from the soil-shape term arccosh(2z/D)/(2 pi L), the
\* conductivity k, the convective coefficient h and the interface area A;
\* python evaluates include_air_convection * 1/hA as (include_air_convection * 1)/hA,
\* that is 0/hA when the convection is not included
thermal_resistance_R2(shape, k, h, A, include_air_convection) ==
    LET hA == RMul(h, A)
    IN  {FloatAdd(RDiv(shape, k), q) : q \in FloatDivide(RInt(include_air_convection * 1), hA)}

\* _calculate_thermal_resistances (lines 166-173); include_air_convection is 0 or 1
\* (h A > 0 for the weather and the nodes simulated: R2 has one outcome)
calculate_thermal_resistances(s, w, t, name, boundary_depth, include_air_convection) ==
    LET z == underground_depth(name) - boundary_depth
        k == thermal_conductivity_at(name, s.time.stamps[t])
    IN  [R1 |-> total_thermal_resistance(w.net, name),
         R2 |-> CHOOSE r \in thermal_resistance_R2(SoilShape(name, z), k,
                                  convective_heat_transfer_coef_at(s.time.stamps[t]),
                                  soil_air_interface_area(name),
                                  include_air_convection) : TRUE]

\* a water-row builder that puts the inflow terms into the upstream nodes' rows
\* (column of the node) instead of the node's own row
modify_water_temperature_rows_Scatter(s, w, t, name, R1, acc_volume) ==
    LET node == s.nodes[name]
        ud == get_upstream_downstream_ids(s, t, node)
        rho_cp_R1_inv == IF R1 = Inf THEN Zero
                         ELSE RDiv(One, RMul(RMul(s.fluid_density, s.fluid_heat_capacity), R1))
        cell == RDiv(RAdd(water_volume(w.net, name), acc_volume), RInt(s.time.step))
        outflow == SumInts([k \in 1..Len(ud.downstream_links_ids) |->
                               s.hydraulic.flow_val[t][ud.downstream_links_ids[k]]])
        diag == RAdd(RAdd(RAdd(cell, RInt(outflow)), RInt(s.hydraulic.demands[t][node.id])),
                     rho_cp_R1_inv)
        own == [s.coef_matrix[node.id] EXCEPT ![node.id] = diag, ![node.ID] = RNeg(rho_cp_R1_inv)]
        ups == SeqToSet(ud.upstream_nodes_ids)
        last(u) == CHOOSE k \in 1..Len(ud.upstream_nodes_ids) :
                      /\ ud.upstream_nodes_ids[k] = u
                      /\ \A j \in (k + 1)..Len(ud.upstream_nodes_ids) : ud.upstream_nodes_ids[j] # u
    IN  [s EXCEPT
          !.coef_matrix = [r \in DOMAIN s.coef_matrix |->
              IF r = node.id THEN own
              ELSE IF r \in ups
              THEN [s.coef_matrix[r] EXCEPT ![node.id] =
                       RNeg(RInt(s.hydraulic.flow_val[t][ud.upstream_links_ids[last(r)]]))]
              ELSE s.coef_matrix[r]],
          !.result_vector[node.id] = RMul(s.temperatures[t - 1][node.id], cell)]

\* _modify_water_temperature_rows (lines 175-183)
modify_water_temperature_rows(s, w, t, name, R1, acc_volume) ==
    LET node == s.nodes[name]
        ud == get_upstream_downstream_ids(s, t, node)
        rho_cp_R1_inv == IF R1 = Inf THEN Zero
                         ELSE RDiv(One, RMul(RMul(s.fluid_density, s.fluid_heat_capacity), R1))
        cell == RDiv(RAdd(water_volume(w.net, name), acc_volume), RInt(s.time.step))
        outflow == SumInts([k \in 1..Len(ud.downstream_links_ids) |->
                               s.hydraulic.flow_val[t][ud.downstream_links_ids[k]]])
        diag == RAdd(RAdd(RAdd(cell, RInt(outflow)), RInt(s.hydraulic.demands[t][node.id])),
                     rho_cp_R1_inv)
        row1 == [s.coef_matrix[node.id] EXCEPT ![node.id] = diag]
        row2 == AssignAt(row1, ud.upstream_nodes_ids,
                         [k \in 1..Len(ud.upstream_links_ids) |->
                             RNeg(RInt(s.hydraulic.flow_val[t][ud.upstream_links_ids[k]]))])
        row3 == [row2 EXCEPT ![node.ID] = RNeg(rho_cp_R1_inv)]
    IN  [s EXCEPT !.coef_matrix[node.id] = row3,
                  !.result_vector[node.id] = RMul(s.temperatures[t - 1][node.id], cell)]

\* _modify_soil_temperature_rows (lines 185-191)
modify_soil_temperature_rows(s, t, name, R1, R2, boundary_temperature, radiation_term) ==
    LET node == s.nodes[name]
        per_step == RDiv(soil_volume(name), RInt(s.time.step))
        C == volumetric_heat_capacity_at(name, s.time.stamps[t - 1])
        T == soil_temperature_prop_at(name, s.time.stamps[t - 1])
    IN  [s EXCEPT
          !.coef_matrix[node.ID][node.ID] =
              RAdd(RAdd(RMul(volumetric_heat_capacity_at(name, s.time.stamps[t]), per_step),
                        Recip(R1)), RDiv(One, R2)),
          !.coef_matrix[node.ID][node.id] = RNeg(Recip(R1)),
          !.result_vector[node.ID] =
              RAdd(RAdd(RMul(RMul(C, T), per_step), RDiv(boundary_temperature, R2)),
                   radiation_term)]

\* _add_row_with_pipe_bc (lines 193-195)
add_row_with_pipe_bc(s, w, t, name, acc_volume) ==
    modify_water_temperature_rows(s, w, t, name, total_thermal_resistance(w.net, name), acc_volume)

\* _add_row_with_soil_bc (lines 197-201)
add_row_with_soil_bc(s, w, t, name, acc_volume) ==
    LET R == calculate_thermal_resistances(s, w, t, name, depth_of_soil_temperature_device, 0)
        boundary_temperature == weather_soil_temperature_at(s.time.stamps[t])
    IN  modify_soil_temperature_rows(
            modify_water_temperature_rows(s, w, t, name, R.R1, acc_volume),
            t, name, R.R1, R.R2, boundary_temperature, Zero)

\* _add_row_with_air_bc (lines 203-208)
add_row_with_air_bc(s, w, t, name, acc_volume) ==
    LET R == calculate_thermal_resistances(s, w, t, name, 0, 1)
        boundary_temperature == air_temperature_at(s.time.stamps[t])
        radiation_term == RMul(RMul(global_solar_radiation_at(s.time.stamps[t]),
                                    soil_air_interface_area(name)),
                               absorptivity_at(name, s.time.stamps[t]))
    IN  modify_soil_temperature_rows(
            modify_water_temperature_rows(s, w, t, name, R.R1, acc_volume),
            t, name, R.R1, R.R2, boundary_temperature, radiation_term)

\* lines 247-250: the soil row of a soil-class reservoir
add_reservoir_soil_row(s, w, t, name) ==
    LET R == calculate_thermal_resistances(s, w, t, name, depth_of_soil_temperature_device, 0)
    IN  modify_soil_temperature_rows(s, t, name, R.R1, R.R2,
                                     weather_soil_temperature_at(s.time.stamps[t]), Zero)

\* lines 252-256: the soil row of an air-class reservoir
add_reservoir_air_row(s, w, t, name) ==
    LET R == calculate_thermal_resistances(s, w, t, name, 0, 1)
        radiation_term == RMul(RMul(global_solar_radiation_at(s.time.stamps[t]), soil_area(name)),
                               absorptivity_at(name, s.time.stamps[t]))
    IN  modify_soil_temperature_rows(s, t, name, R.R1, R.R2,
                                     air_temperature_at(s.time.stamps[t]), radiation_term)

\* the row of _tanks_volumes from which the tank builders take acc_volume
\* (lines 239, 242, 245: self._tanks_volumes[self._time.stamps[t], ...])
acc_volume_row(s, t) == s.time.stamps[t]

\* the rows one builder of lines 229-256 writes for its node; a tank builder
\* gets the tank's accumulated volume as acc_volume
build_rows(s, w, t, job) ==
    LET acc_volume == IF job.tank
                      THEN s.tanks_volumes[acc_volume_row(s, t)]
                                          [s.nodes[job.name].id - s.junctions_data.num]
                      ELSE Zero
    IN  IF job.builder = "pipe_bc" THEN add_row_with_pipe_bc(s, w, t, job.name, acc_volume)
        ELSE IF job.builder = "soil_bc" THEN add_row_with_soil_bc(s, w, t, job.name, acc_volume)
        ELSE IF job.builder = "air_bc" THEN add_row_with_air_bc(s, w, t, job.name, acc_volume)
        ELSE IF job.builder = "res_soil" THEN add_reservoir_soil_row(s, w, t, job.name)
        ELSE add_reservoir_air_row(s, w, t, job.name)

\* one row builder of lines 229-256: the next node of the step gets its rows.
\* A tank's acc_volume argument is read first (IndexError when the row does not
\* exist), then the soil and air builders reach for the weather object
\* (AttributeError when it is None).
AddRow ==
    /\ run.pc = "assemble"
    /\ run.todo # <<>>
    /\ LET job == Head(run.todo)
           t == run.t
           row == acc_volume_row(sim, t)
           tank_col == sim.nodes[job.name].id - sim.junctions_data.num
       IN  IF job.tank /\ row >= sim.time.stamps_num
           THEN /\ run' = [run EXCEPT !.pc = "aborted", !.error = "IndexError"]
                /\ UNCHANGED sim
           ELSE IF job.builder # "pipe_bc" /\ weather = None
           THEN /\ run' = [run EXCEPT !.pc = "aborted", !.error = "AttributeError"]
                /\ UNCHANGED sim
           ELSE /\ sim' = build_rows(sim, wn, t, job)
                /\ run' = [run EXCEPT
                      !.todo = Tail(run.todo),
                      !.acc_log = IF job.tank
                                  THEN @ \cup {[t |-> t, name |-> job.name,
                                                acc_volume |-> sim.tanks_volumes[row][tank_col]]}
                                  ELSE @]
    /\ UNCHANGED <<net, mesh, wn, results, weather>>

\* Gauss-Jordan elimination of the augmented matrix M (n rows, columns 0..n);
\* <<>> when a column has no pivot, that is, when the matrix is singular
RECURSIVE Eliminate(_, _, _)
Eliminate(M, n, k) ==
    IF k = n THEN M
    ELSE LET cand == {p \in k..(n - 1) : M[p][k] # Zero}
         IN  IF cand = {} THEN <<>>
             ELSE LET p == CHOOSE q \in cand : \A r \in cand : q <= r
                      rowk == [j \in 0..n |-> RDiv(M[p][j], M[p][k])]
                      S == [i \in 0..(n - 1) |->
                               IF i = k THEN M[p] ELSE IF i = p THEN M[k] ELSE M[i]]
                      E == [i \in 0..(n - 1) |->
                               IF i = k THEN rowk
                               ELSE [j \in 0..n |-> RSub(S[i][j], RMul(S[i][k], rowk[j]))]]
                  IN  \* (the comparison makes the tool compute E once)
                      IF E = E THEN Eliminate(E, n, k + 1) ELSE <<>>

\* the floating-point number nearest to x: the solver's results are not exact
\* fractions; the model keeps them on a grid of 1/FloatGrid (a value that is on
\* the grid, such as a prescribed temperature passed through an identity row,
\* is kept exactly)
FloatGrid == 16
Rounded(x) == Rat((2 * x[1] * FloatGrid + x[2]) \div (2 * x[2]), FloatGrid)

\* numpy.linalg.solve(C, b): the solution, or <<>> for LinAlgError
linalg_solve(C, b) ==
    LET n == Cardinality(DOMAIN b)
        R == Eliminate([i \in 0..(n - 1) |-> [j \in 0..n |-> IF j = n THEN b[i] ELSE C[i][j]]],
                       n, 0)
    IN  IF R = <<>> THEN <<>> ELSE [i \in 0..(n - 1) |-> Rounded(R[i][n])]

\* a failed solve that is swallowed: the step is skipped and the loop goes on
solve_failed_Continue(r, s) ==
    [r EXCEPT !.failed_at = r.t, !.error = "LinAlgError",
              !.t = r.t + 1,
              !.pc = IF r.t + 1 < s.time.stamps_num THEN "refresh" ELSE "publish"]

\* LinAlgError leaves run_sim through the loop and the caller: nothing after
\* line 258 runs
solve_failed(r, s) ==
    [r EXCEPT !.failed_at = r.t, !.error = "LinAlgError", !.pc = "aborted"]

\* a store that writes the solution into the previous row as well
store_solution_AlsoPrevious(s, t, solution) ==
    LET N == s.nodes_data.num
        water == [n \in 0..(N - 1) |-> solution[n]]
    IN  [s EXCEPT !.temperatures[t] = water, !.temperatures[t - 1] = water,
                  !.soil_temperatures[t] = [n \in 0..(N - 1) |-> solution[n + N]]]

\* lines 259-260
store_solution(s, t, solution) ==
    LET N == s.nodes_data.num
    IN  [s EXCEPT !.temperatures[t] = [n \in 0..(N - 1) |-> solution[n]],
                  !.soil_temperatures[t] = [n \in 0..(N - 1) |-> solution[n + N]]]

\* lines 258-260 and the loop's advance (line 219)
Solve ==
    /\ run.pc = "assemble"
    /\ run.todo = <<>>
    /\ LET solution == linalg_solve(sim.coef_matrix, sim.result_vector)
       IN  IF solution = <<>>
           THEN /\ run' = solve_failed(run, sim)
                /\ UNCHANGED sim
           ELSE /\ sim' = store_solution(sim, run.t, solution)
                /\ run' = [run EXCEPT
                      !.solved = Append(@, run.t),
                      !.t = run.t + 1,
                      !.pc = IF run.t + 1 < sim.time.stamps_num THEN "refresh" ELSE "publish"]
    /\ UNCHANGED <<net, mesh, wn, results, weather>>

\* lines 262-265: the tables are put into the results object, which is returned
Publish ==
    /\ run.pc = "publish"
    /\ results' = [results EXCEPT !.temperature = sim.temperatures,
                                  !.soil_temperature = sim.soil_temperatures]
    /\ run' = [run EXCEPT !.pc = "done", !.returned = TRUE]
    /\ UNCHANGED <<net, mesh, wn, weather, sim>>

Next == Construct \/ RunSimBegin \/ StepRefresh \/ AddRow \/ Solve \/ Publish

Spec == Init /\ [][Next]_vars

-----------------------------------------------------------------------------------------------------------------------------------------------------
(* SpecResist: one call of the R2 computation of                            *)
(* _calculate_thermal_resistances on its own, over small inputs             *)

MaxCoef == 2

\* the call with its arguments: the soil-shape term, the conductivity, the
\* convective coefficient, the soil/air interface area, and whether the air
\* convection is included (air-class nodes) or not (soil-class nodes)
InitResist ==
    /\ net = EmptyNet
    /\ mesh = MeshIdle
    /\ wn = <<>>
    /\ results = <<>>
    /\ sim = <<>>
    /\ weather = TheWeather
    /\ \E shape \in 1..(MaxCoef + 1), k \in 1..MaxCoef, h \in 0..MaxCoef, A \in 0..MaxCoef,
          include \in 0..1 :
         run = [pc |-> "resistances", shape |-> RInt(shape), k |-> RInt(k), h |-> RInt(h),
                A |-> RInt(A), include_air_convection |-> include, R2 |-> None]

ResistReturn ==
    /\ run.pc = "resistances"
    /\ \E r \in thermal_resistance_R2(run.shape, run.k, run.h, run.A, run.include_air_convection) :
          run' = [run EXCEPT !.pc = "returned", !.R2 = r]
    /\ UNCHANGED <<net, mesh, wn, results, weather, sim>>

NextResist == ResistReturn

SpecResist == InitResist /\ [][NextResist]_vars

\* C14: for a soil-class node (air convection not included) the R2 returned is
\* the soil-path term arccosh(2z/D)/(2 pi L k) alone: a well-defined number that
\* is the same for every convective coefficient and every interface area, also
\* when their product is zero; the term 1/(h A) is added only for air-class nodes
C14_SoilClassR2SoilPathOnly ==
    run.pc = "returned" =>
        IF run.include_air_convection = 0
        THEN run.R2 = RDiv(run.shape, run.k)
        ELSE RMul(run.h, run.A) # Zero =>
                 run.R2 = RAdd(RDiv(run.shape, run.k), RDiv(One, RMul(run.h, run.A)))

-----
(* Properties of the simulator                                              *)

IdentityRow(n, i) == [c \in 0..(n - 1) |-> IF c = i THEN One ELSE Zero]

\* run_sim has got past lines 211-217
Classified == \/ run.pc \in {"refresh", "assemble", "publish", "done"}
              \/ run.pc = "aborted" /\ run.error # "ValueError"

\* the initial condition of lines 151-155, from the inputs
InitialWater(name) == IF name \in SeqToSet(wn.reservoir_name_list)
                      THEN reservoir_temperature_at(name, 0) ELSE initial_temperature(name)

C1_RowsInOrder ==
    /\ run.solved = [i \in 1..Len(run.solved) |-> i]
    /\ run.pc \notin {"idle", "new"} =>
          /\ Len(run.solved) < sim.time.stamps_num
          /\ run.pc = "done" => Len(run.solved) = sim.time.stamps_num - 1
    /\ Classified =>
          /\ \A n \in 0..(sim.nodes_data.num - 1) :
                /\ sim.temperatures[0][n] = InitialWater(sim.nodes_data.names[n + 1])
                /\ sim.soil_temperatures[0][n] =
                       soil_temperature_prop_at(sim.nodes_data.names[n + 1], 0)
          /\ \A k \in 0..(sim.tanks_data.num - 1) :
                sim.tanks_volumes[0][k] =
                    get_volume(sim.tanks_data.names[k + 1],
                               tank_init_level(sim.tanks_data.names[k + 1]))

C1_RowsNeverRevisited ==
    /\ run.pc \in {"done", "aborted"} => UNCHANGED vars
    /\ Classified =>
          /\ run'.solved \in {run.solved, Append(run.solved, Len(run.solved) + 1)}
          /\ \A r \in 0..Len(run.solved) :
                /\ sim'.temperatures[r] = sim.temperatures[r]
                /\ sim'.soil_temperatures[r] = sim.soil_temperatures[r]
                /\ sim'.tanks_volumes[r] = sim.tanks_volumes[r]

\* C1: run_sim solves the time indices 1 .. T-1 in strictly increasing order, each
\* exactly once, and then terminates (a run that ends with the results has solved
\* all of them); row 0 of the water-temperature, soil-temperature and tank-volume
\* state holds the initial condition throughout, and once row t has been stored
\* by step t no later step writes a row with index <= t
C1_SequentialRows == [](C1_RowsInOrder) /\ [][C1_RowsNeverRevisited]_vars

\* a run over four stamps has solved 1, 2, 3 and returned
C1_Witness ==
    /\ run.pc = "done"
    /\ run.solved = <<1, 2, 3>>
    /\ sim.time.stamps_num = 4

\* C2 (as stated): for every tank and every step t >= 1, the acc_volume used in
\* the tank's water row is the value stored in row t of the tank-volume state,
\* for any timestep size (and the value is there to be read)
C2_AccVolumeIsRowT ==
    /\ run.error # "IndexError"
    /\ \A e \in run.acc_log :
          e.acc_volume = sim.tanks_volumes[e.t][sim.nodes[e.name].id - sim.junctions_data.num]

\* C3: for every reservoir and every step t >= 1, the reservoir's water row of
\* the assembled matrix is the identity row and its right-hand side is the
\* prescribed reservoir temperature at stamp t, and the water temperature stored
\* at row t equals the prescribed temperature, whatever the flows and the other
\* nodes' rows are
C3_ReservoirDirichlet ==
    Classified =>
        \A i \in 1..Len(wn.reservoir_name_list) :
            LET name == wn.reservoir_name_list[i]
                id == sim.nodes[name].id
            IN  /\ run.pc = "assemble" =>
                      /\ sim.coef_matrix[id] = IdentityRow(2 * sim.nodes_data.num, id)
                      /\ sim.result_vector[id] =
                             reservoir_temperature_at(name, sim.time.stamps[run.t])
                /\ \A k \in 1..Len(run.solved) :
                      sim.temperatures[run.solved[k]][id] =
                          reservoir_temperature_at(name, sim.time.stamps[run.solved[k]])

\* a finished run over stamps 0 and 2 with water flowing and an air-class
\* reservoir, whose soil row was assembled next to its untouched water row
C3_Witness ==
    /\ run.pc = "done"
    /\ run.solved = <<1>>
    /\ wn.hydraulic_timestep = 2
    /\ wn.thermal_bc["re"] = "air"
    /\ results.flowrate[1][0] # 0
    /\ sim.temperatures[1][sim.nodes["re"].id] = RInt(8)

\* C4: for each node group (junctions, tanks, reservoirs) the classifier returns
\* three subsets pipe_bc, soil_bc, air_bc that are pairwise disjoint and whose
\* union is the whole group, so every node belongs to exactly one class; each
\* subset's soil-row ids IDS are its water-row ids plus N
C4_ClassesPartition ==
    Classified =>
        \A g \in {sim.junctions_data, sim.tanks_data, sim.reservoirs_data} :
            LET subsets == <<g.pipe_bc, g.soil_bc, g.air_bc>>
            IN  /\ \A a \in 1..3, b \in 1..3 :
                      a # b => SeqToSet(subsets[a].names) \cap SeqToSet(subsets[b].names) = {}
                /\ UNION {SeqToSet(subsets[a].names) : a \in 1..3} = SeqToSet(g.names)
                /\ subsets[1].num + subsets[2].num + subsets[3].num = g.num
                /\ \A a \in 1..3 :
                      /\ Len(subsets[a].ids) = Len(subsets[a].names)
                      /\ Len(subsets[a].IDS) = Len(subsets[a].names)
                      /\ \A i \in 1..Len(subsets[a].names) :
                            /\ subsets[a].ids[i] = sim.nodes[subsets[a].names[i]].id
                            /\ subsets[a].IDS[i] = subsets[a].ids[i] + sim.nodes_data.num
                            /\ wn.thermal_bc[subsets[a].names[i]] = <<"pipe", "soil", "air">>[a]

\* the two junctions of the larger network fall into different classes
C4_Witness ==
    /\ Classified
    /\ sim.junctions_data.names = <<"j1", "j2">>
    /\ sim.junctions_data.air_bc.names = <<"j1">>
    /\ sim.junctions_data.soil_bc.names = <<"j2">>
    /\ sim.junctions_data.soil_bc.IDS = <<5>>
    /\ sim.junctions_data.pipe_bc.names = <<>>

\* C6: if the linear solve fails at some step t, run_sim aborts at that step: no
\* later step executes, run_sim returns no results object, and the hydraulic
\* results object receives neither a 'temperature' nor a 'soil_temperature' table
C6_SolveFailureAborts ==
    run.error = "LinAlgError" =>
        /\ run.pc = "aborted"
        /\ run.t = run.failed_at
        /\ \A k \in 1..Len(run.solved) : run.solved[k] < run.failed_at
        /\ ~run.returned
        /\ results.temperature = None
        /\ results.soil_temperature = None

\* step 1 was solved, then the flow turned and left junction j2 (no pipe, no
\* volume) with an all-zero water row at step 2
C6_Witness ==
    /\ run.error = "LinAlgError"
    /\ run.failed_at = 2
    /\ run.solved = <<1>>
    /\ sim.coef_matrix[sim.nodes["j2"].id] = Zeros1(2 * sim.nodes_data.num)

\* C7 (as stated): when no weather object is supplied and some junction, tank or
\* reservoir has boundary class soil or air, the error is raised while the
\* simulator is constructed: construction does not succeed, so run_sim never
\* initializes state nor begins a timestep
C7_FailsAtConstruction ==
    (run.pc # "idle" /\ weather = None
        /\ \E name \in DOMAIN wn.thermal_bc : wn.thermal_bc[name] \in {"soil", "air"})
    => run.pc = "new"

\* C10: for every node of boundary class pipe and every step t >= 1, the node's
\* soil row of the assembled matrix is the identity row with right-hand side the
\* node's own soil-property temperature at stamp t, and the soil temperature
\* stored at row t for that node equals that prescribed value
C10_PipeClassSoilRow ==
    Classified =>
        \A name \in SeqToSet(sim.nodes_data.names) :
            wn.thermal_bc[name] = "pipe" =>
                LET node == sim.nodes[name]
                IN  /\ run.pc = "assemble" =>
                          /\ sim.coef_matrix[node.ID] = IdentityRow(2 * sim.nodes_data.num, node.ID)
                          /\ sim.result_vector[node.ID] =
                                 soil_temperature_prop_at(name, sim.time.stamps[run.t])
                    /\ \A k \in 1..Len(run.solved) :
                          sim.soil_temperatures[run.solved[k]][node.id] =
                              soil_temperature_prop_at(name, sim.time.stamps[run.solved[k]])

\* a finished run over stamps 0 and 2 in which the junction is a pipe-class node
\* fed by a soil-class reservoir
C10_Witness ==
    /\ run.pc = "done"
    /\ run.solved = <<1>>
    /\ wn.hydraulic_timestep = 2
    /\ wn.tank_name_list = <<>>
    /\ wn.thermal_bc["j1"] = "pipe"
    /\ wn.thermal_bc["re"] = "soil"
    /\ sim.soil_temperatures[1][sim.nodes["j1"].id] = RInt(3)

\* C16: for every network, also one without reservoirs or without tanks, the
\* id arrays the constructor builds for junctions, tanks and reservoirs hold one
\* id per name of the group, are pairwise disjoint and together cover 0..N-1
\* (the reservoir id array is empty when there is no reservoir), and the
\* initialization of run_sim does not fail on such a network
C16_GroupIdsPartitionNodes ==
    run.pc \notin {"idle", "new"} =>
        LET J == sim.junctions_data
            Tk == sim.tanks_data
            Rs == sim.reservoirs_data
        IN  /\ \A g \in {J, Tk, Rs} : Len(g.ids) = Len(g.names)
            /\ SeqToSet(J.ids) \cap SeqToSet(Tk.ids) = {}
            /\ SeqToSet(J.ids) \cap SeqToSet(Rs.ids) = {}
            /\ SeqToSet(Tk.ids) \cap SeqToSet(Rs.ids) = {}
            /\ SeqToSet(J.ids) \cup SeqToSet(Tk.ids) \cup SeqToSet(Rs.ids)
                   = 0..(sim.nodes_data.num - 1)
            /\ (wn.reservoir_name_list = <<>> => Rs.ids = <<>>)
            /\ run.error # "ValueError"

\* the id of a link, and the links that carry water at step t
LinkId(l) == CHOOSE i \in 0..(sim.links_data.num - 1) : sim.links_data.names[i + 1] = l
FlowingLinks(t) ==
    {l \in SeqToSet(sim.links_data.names) : results.flowrate[t][LinkId(l)] # 0}
\* the end of link l the water arrives at, and the end it leaves from, at step t
Receiver(l, t) == IF results.flowrate[t][LinkId(l)] > 0 THEN wn.net.links[l].end_node
                  ELSE wn.net.links[l].start_node
Sender(l, t) == IF results.flowrate[t][LinkId(l)] > 0 THEN wn.net.links[l].start_node
                ELSE wn.net.links[l].end_node

\* the junctions and tanks whose rows of the current step have been assembled
RowsBuilt ==
    IF run.pc # "assemble" THEN {}
    ELSE {name \in SeqToSet(wn.junction_name_list \o wn.tank_name_list) :
             \A i \in 1..Len(run.todo) : run.todo[i].name # name}

\* sum of the entries of a matrix row
RowSum(row) == RSumSeq([c \in 1..Cardinality(DOMAIN row) |-> row[c - 1]])

\* C15: in every assembled junction or tank water row, the off-diagonal entry in
\* the column of an upstream neighbour equals minus the sum of the flow
\* magnitudes of all inflowing links that join the two nodes, parallel links
\* included; and for a junction whose inflows equal its outflows plus demand,
\* the entries of the row add up to (cell volume)/step
C15_InflowSummedPerNeighbour ==
    \A name \in RowsBuilt :
        LET node == sim.nodes[name]
            t == run.t
            ud == get_upstream_downstream_ids(sim, t, node)
            ups == 1..Len(ud.upstream_links_ids)
            inflow(S) == SumInts(SelectSeq(
                            [k \in ups |-> IF k \in S
                                           THEN sim.hydraulic.flow_val[t][ud.upstream_links_ids[k]]
                                           ELSE 0], LAMBDA v : TRUE))
            outflow == SumInts([k \in 1..Len(ud.downstream_links_ids) |->
                                   sim.hydraulic.flow_val[t][ud.downstream_links_ids[k]]])
        IN  /\ \A u \in SeqToSet(ud.upstream_nodes_ids) :
                  sim.coef_matrix[node.id][u] =
                      RInt(-inflow({k \in ups : ud.upstream_nodes_ids[k] = u}))
            /\ (/\ name \in SeqToSet(wn.junction_name_list)
                /\ inflow(ups) = outflow + sim.hydraulic.demands[t][node.id])
               => RowSum(sim.coef_matrix[node.id])
                     = RDiv(water_volume(wn.net, name), RInt(sim.time.step))

\* C11: for every link with non-zero flowrate at step t, the node the water
\* arrives at (the end node for positive flow, the start node for negative flow)
\* lists the link as an inflow and not as an outflow, and the node it leaves
\* lists it as an outflow and not as an inflow; the water row of the receiving
\* node has -|flow| in the sending node's column, and the diagonal of the
\* sending node's water row is (cell volume)/step + demand + 1/(rho cp R1) plus
\* the flow magnitudes of the links the node sends into or that stand still
C11_UpwindDirection ==
    run.pc = "assemble" =>
        LET t == run.t
            mag(l) == Abs(results.flowrate[t][LinkId(l)])
        IN  /\ \A l \in FlowingLinks(t) :
                  LET into == get_upstream_downstream_ids(sim, t, sim.nodes[Receiver(l, t)])
                      from == get_upstream_downstream_ids(sim, t, sim.nodes[Sender(l, t)])
                  IN  /\ LinkId(l) \in SeqToSet(into.upstream_links_ids)
                      /\ LinkId(l) \notin SeqToSet(into.downstream_links_ids)
                      /\ LinkId(l) \in SeqToSet(from.downstream_links_ids)
                      /\ LinkId(l) \notin SeqToSet(from.upstream_links_ids)
                      /\ Receiver(l, t) \in RowsBuilt =>
                            sim.coef_matrix[sim.nodes[Receiver(l, t)].id][sim.nodes[Sender(l, t)].id]
                                = RInt(-mag(l))
            /\ \A name \in RowsBuilt :
                  LET node == sim.nodes[name]
                      sent == {l \in SeqToSet(wn.net.nodes[name].connected_links) :
                                  l \notin FlowingLinks(t) \/ Sender(l, t) = name}
                      acc == IF name \in SeqToSet(wn.tank_name_list)
                             THEN sim.tanks_volumes[acc_volume_row(sim, t)]
                                                   [node.id - sim.junctions_data.num]
                             ELSE Zero
                      R1 == total_thermal_resistance(wn.net, name)
                  IN  sim.coef_matrix[node.id][node.id] =
                          RAdd(RAdd(RAdd(RDiv(RAdd(water_volume(wn.net, name), acc),
                                              RInt(sim.time.step)),
                                         RSumSet(sent, [l \in sent |-> RInt(mag(l))])),
                                    RInt(sim.hydraulic.demands[t][node.id])),
                               IF R1 = Inf THEN Zero
                               ELSE RDiv(One, RMul(RMul(sim.fluid_density,
                                                        sim.fluid_heat_capacity), R1)))

\* the permutations of 1..n
Perms(n) == {f \in [1..n -> 1..n] : \A a, b \in 1..n : f[a] = f[b] => a = b}

\* the builders `jobs` run in the order jobs[order[1]], jobs[order[2]], ...
RECURSIVE AssembleIn(_, _, _, _, _)
AssembleIn(s, t, jobs, order, k) ==
    IF k > Len(jobs) THEN s
    ELSE AssembleIn(build_rows(s, wn, t, jobs[order[k]]), t, jobs, order, k + 1)

\* all builders of the current step have run
StepAssembled == run.pc = "assemble" /\ run.todo = <<>>

C12_AnyOrderSameSystem ==
    StepAssembled =>
        LET jobs == StepBuilders(sim)
            fresh == refresh(sim, run, run.t)
        IN  \A order \in Perms(Len(jobs)) :
                LET built == AssembleIn(fresh, run.t, jobs, order, 1)
                IN  /\ built.coef_matrix = sim.coef_matrix
                    /\ built.result_vector = sim.result_vector

C12_OwnRowsOnly ==
    (run.pc = "assemble" /\ run.todo # <<>> /\ run'.pc = "assemble") =>
        LET node == sim.nodes[Head(run.todo).name]
        IN  \A r \in DOMAIN sim.coef_matrix :
                r \notin {node.id, node.ID} =>
                    /\ sim'.coef_matrix[r] = sim.coef_matrix[r]
                    /\ sim'.result_vector[r] = sim.result_vector[r]

\* C12: within one timestep a node's row builder writes only the node's own
\* water row id and soil row ID = id + N of the matrix and of the right-hand
\* side, never a row of another node; hence the assembled matrix and right-hand
\* side are the same for every order in which the step's builders are run
C12_RowAssemblyIndependent == [](C12_AnyOrderSameSystem) /\ [][C12_OwnRowsOnly]_vars

\* the second step of a run is assembled for three nodes of three different
\* classes, the junction j1 receiving water from the reservoir
C12_Witness ==
    /\ StepAssembled
    /\ run.t = 2
    /\ Len(StepBuilders(sim)) = 3
    /\ wn.junction_name_list = <<"j1", "j2">>
    /\ wn.thermal_bc["j1"] = "air"
    /\ wn.thermal_bc["j2"] = "soil"
    /\ sim.coef_matrix[sim.nodes["j1"].id][sim.nodes["re"].id] = RInt(-2)

\* the soil-class and air-class nodes whose soil row of the current step has
\* been assembled
SoilRowsBuilt ==
    IF run.pc # "assemble" THEN {}
    ELSE {name \in SeqToSet(sim.nodes_data.names) :
             /\ wn.thermal_bc[name] \in {"soil", "air"}
             /\ \A i \in 1..Len(run.todo) : run.todo[i].name # name}

\* C13: for every soil-class or air-class node and every step t >= 1, the
\* right-hand side of the node's soil row is the storage term built from the
\* soil temperature held in row t-1 of the soil-temperature state (the value
\* solved at step t-1 when t >= 2), plus boundary_temperature/R2 and the
\* radiation term
C13_SoilStorageFromState ==
    \A name \in SoilRowsBuilt :
        LET node == sim.nodes[name]
            t == run.t
            air == wn.thermal_bc[name] = "air"
            R == calculate_thermal_resistances(sim, wn, t, name,
                     IF air THEN 0 ELSE depth_of_soil_temperature_device,
                     IF air THEN 1 ELSE 0)
            boundary_temperature == IF air THEN air_temperature_at(sim.time.stamps[t])
                                    ELSE weather_soil_temperature_at(sim.time.stamps[t])
            exposed == IF name \in SeqToSet(wn.reservoir_name_list)
                       THEN soil_area(name) ELSE soil_air_interface_area(name)
            radiation_term == IF air
                              THEN RMul(RMul(global_solar_radiation_at(sim.time.stamps[t]), exposed),
                                        absorptivity_at(name, sim.time.stamps[t]))
                              ELSE Zero
            storage == RMul(RMul(volumetric_heat_capacity_at(name, sim.time.stamps[t - 1]),
                                 sim.soil_temperatures[t - 1][node.id]),
                            RDiv(soil_volume(name), RInt(sim.time.step)))
        IN  sim.result_vector[node.ID] =
                RAdd(RAdd(storage, RDiv(boundary_temperature, R.R2)), radiation_term)

====
